---- MODULE Spec2Model ----
(***************************************************************************)
(* Model of preprocessing.py: the feature-engineering pipeline that turns  *)
(* cycles.csv and tracking.csv into a per-user, per-day feature table.     *)
(*                                                                         *)
(* Dates are day numbers (integers); a pandas DataFrame is a record        *)
(* [status, columns, rows] whose rows are [index, data], data being a      *)
(* function from column names to cell values.  A raised exception is a     *)
(* value whose status is the exception's name.  The two joblib files of    *)
(* the staging directory are the variables cycles_processed_backup and     *)
(* features_backup.                                                        *)
(***************************************************************************)
EXTENDS Integers, Sequences, FiniteSets, TLC

VARIABLES cycles, tracking, cycles_processed_backup, features_backup, out

vars == <<cycles, tracking, cycles_processed_backup, features_backup, out>>

(* ------------------------------ bounds -------------------------------- *)
NumUsers == 2
MaxStart == 2
MaxLength == 2
MaxPeriod == 1
MaxCycles == 2
MaxEvents == 2
MaxWindow == 2
MaxUnitLength == 129
MaxUnitPeriod == 2
MaxUnitEvents == 3

(* --------------------------- generic helpers -------------------------- *)
Range(s) == {s[i] : i \in 1..Len(s)}

Min(a, b) == IF a <= b THEN a ELSE b

RECURSIVE ConcatAll(_)
ConcatAll(ss) == IF ss = <<>> THEN <<>> ELSE Head(ss) \o ConcatAll(Tail(ss))

KeyLeq(a, b) == a[1] < b[1] \/ (a[1] = b[1] /\ a[2] <= b[2])

RECURSIVE SortKeys(_)
SortKeys(S) ==
    IF S = {} THEN <<>>
    ELSE LET m == CHOOSE x \in S : \A y \in S : KeyLeq(x, y)
         IN  <<m>> \o SortKeys(S \ {m})

RECURSIVE SortInts(_)
SortInts(S) ==
    IF S = {} THEN <<>>
    ELSE LET m == CHOOSE x \in S : \A y \in S : x <= y
         IN  <<m>> \o SortInts(S \ {m})

(* ------------------------ tables and exceptions ----------------------- *)
Table(columns, rows) == [status |-> "ok", columns |-> columns, rows |-> rows]

Raised(exception) == [status |-> exception, columns |-> <<>>, rows |-> <<>>]

NoFile == [status |-> "absent", columns |-> <<>>, rows |-> <<>>]

NoCall == [status |-> "nocall", columns |-> <<>>, rows |-> <<>>]

IndexSet(t) == {t.rows[i].index : i \in 1..Len(t.rows)}

RowsAt(t, k) == SelectSeq(t.rows, LAMBDA r : r.index = k)

(* ------------------------- symptom vocabulary ------------------------- *)
list_of_symptoms == <<"happy", "pms">>

training_columns == list_of_symptoms \o <<"day_in_cycle", "absolute_day", "period">>

(* ------------------------------ int8 ---------------------------------- *)
Int8(n) == ((n + 128) % 256) - 128

(* ---------------------------- expand_cycle ---------------------------- *)
expand_cycle(cycle) ==
    Table(<<"cycle_id", "day_in_cycle", "period">>,
          [i \in 1..cycle.cycle_length |->
              [index |-> <<cycle.user_id, cycle.cycle_start + (i - 1)>>,
               data  |-> [cycle_id     |-> cycle.cycle_id,
                          day_in_cycle |-> Int8(i),
                          period       |-> IF i <= cycle.period_length
                                           THEN Int8(1) ELSE Int8(0)]]])

(* ---------------------------- expand_cycles --------------------------- *)
expand_cycles(cycles_arg, backup) ==
    IF backup.status # "absent"
    THEN [value |-> backup, backup |-> backup]
    ELSE IF cycles_arg = <<>>
    THEN [value |-> Raised("ValueError"), backup |-> backup]
    ELSE LET cycles_processed ==
                 Table(<<"cycle_id", "day_in_cycle", "period">>,
                       ConcatAll([i \in 1..Len(cycles_arg) |->
                                     expand_cycle(cycles_arg[i]).rows]))
         IN  [value |-> cycles_processed, backup |-> cycles_processed]

(* --------------------------- process_tracking ------------------------- *)
process_tracking(tracking_arg) ==
    LET dummies == {tracking_arg[i].symptom : i \in 1..Len(tracking_arg)}
        keys    == SortKeys({<<tracking_arg[i].user_id, tracking_arg[i].date>> :
                                 i \in 1..Len(tracking_arg)})
        count(k, s) == Cardinality({i \in 1..Len(tracking_arg) :
                            /\ <<tracking_arg[i].user_id, tracking_arg[i].date>> = k
                            /\ tracking_arg[i].symptom = s})
    IN  IF \E j \in 1..Len(list_of_symptoms) : list_of_symptoms[j] \notin dummies
        THEN Raised("KeyError")
        ELSE Table(list_of_symptoms,
                   [n \in 1..Len(keys) |->
                       [index |-> keys[n],
                        data  |-> [s \in Range(list_of_symptoms) |-> count(keys[n], s)]]])

(* ------------------- get_features: the two merges --------------------- *)
Zeros(columns) == [c \in Range(columns) |-> 0]

merge_outer(tracking_processed, cycles_processed) ==
    LET keys == SortKeys(IndexSet(tracking_processed) \cup IndexSet(cycles_processed))
        left(k) == IF k \in IndexSet(tracking_processed)
                   THEN RowsAt(tracking_processed, k)[1].data
                   ELSE Zeros(tracking_processed.columns)
        right(k) == RowsAt(cycles_processed, k)
        joined(k) == IF right(k) = <<>>
                     THEN << [index |-> k,
                              data  |-> left(k) @@ Zeros(cycles_processed.columns)] >>
                     ELSE [j \in 1..Len(right(k)) |->
                              [index |-> k, data |-> left(k) @@ right(k)[j].data]]
    IN  Table(tracking_processed.columns \o cycles_processed.columns,
              ConcatAll([n \in 1..Len(keys) |-> joined(keys[n])]))

first_use(cycles_arg) ==
    LET ids == {cycles_arg[i].user_id : i \in 1..Len(cycles_arg)}
        starts(u) == {cycles_arg[i].cycle_start :
                          i \in {j \in 1..Len(cycles_arg) : cycles_arg[j].user_id = u}}
    IN  [u \in ids |-> CHOOSE d \in starts(u) : \A e \in starts(u) : d <= e]

merge_first_use(features, cycles_arg) ==
    LET fu   == first_use(cycles_arg)
        kept == SelectSeq(features.rows, LAMBDA r : r.index[1] \in DOMAIN fu)
    IN  Table(features.columns \o <<"first_use">>,
              [n \in 1..Len(kept) |->
                  [index |-> kept[n].index,
                   data  |-> kept[n].data @@ ("first_use" :> fu[kept[n].index[1]])]])

(* the absolute day without the "+ 1" of line 234 *)
absolute_day_zero_based(date, first_use_date) == date - first_use_date

absolute_day(date, first_use_date) == (date - first_use_date) + 1

with_absolute_day(features) ==
    Table(features.columns \o <<"absolute_day">>,
          [n \in 1..Len(features.rows) |->
              [index |-> features.rows[n].index,
               data  |-> features.rows[n].data @@
                         ("absolute_day" :> absolute_day(features.rows[n].index[2],
                                                         features.rows[n].data["first_use"]))]])

select_columns(features, columns) ==
    Table(columns,
          [n \in 1..Len(features.rows) |->
              [index |-> features.rows[n].index,
               data  |-> [c \in Range(columns) |-> features.rows[n].data[c]]]])

(* --------------------- get_features, without split -------------------- *)
(* get_features with the joblib.dump of line 241 moved before the column   *)
(* selection of line 238: the backup keeps cycle_id and first_use          *)
get_features_table_early_dump(cycles_arg, tracking_arg, cpb, fb, force) ==
    IF fb.status # "absent" /\ ~force
    THEN [value |-> fb, cycles_processed_backup |-> cpb,
          features_backup |-> fb, loaded |-> TRUE]
    ELSE LET expanded == expand_cycles(cycles_arg, cpb)
             tracking_processed == process_tracking(tracking_arg)
             merged == with_absolute_day(
                          merge_first_use(
                             merge_outer(tracking_processed, expanded.value),
                             cycles_arg))
             features == select_columns(merged, training_columns)
         IN  IF expanded.value.status # "ok"
             THEN [value |-> expanded.value, cycles_processed_backup |-> expanded.backup,
                   features_backup |-> fb, loaded |-> FALSE]
             ELSE IF tracking_processed.status # "ok"
             THEN [value |-> tracking_processed,
                   cycles_processed_backup |-> expanded.backup,
                   features_backup |-> fb, loaded |-> FALSE]
             ELSE [value |-> features, cycles_processed_backup |-> expanded.backup,
                   features_backup |-> merged, loaded |-> FALSE]

get_features_table(cycles_arg, tracking_arg, cpb, fb, force) ==
    IF fb.status # "absent" /\ ~force
    THEN [value |-> fb, cycles_processed_backup |-> cpb,
          features_backup |-> fb, loaded |-> TRUE]
    ELSE LET expanded == expand_cycles(cycles_arg, cpb)
             tracking_processed == process_tracking(tracking_arg)
             merged == with_absolute_day(
                          merge_first_use(
                             merge_outer(tracking_processed, expanded.value),
                             cycles_arg))
             features == select_columns(merged, training_columns)
         IN  IF expanded.value.status # "ok"
             THEN [value |-> expanded.value, cycles_processed_backup |-> expanded.backup,
                   features_backup |-> fb, loaded |-> FALSE]
             ELSE IF tracking_processed.status # "ok"
             THEN [value |-> tracking_processed,
                   cycles_processed_backup |-> expanded.backup,
                   features_backup |-> fb, loaded |-> FALSE]
             ELSE [value |-> features, cycles_processed_backup |-> expanded.backup,
                   features_backup |-> features, loaded |-> FALSE]

(* -------------------- prepare_data_for_prediction --------------------- *)
None == [status |-> "None", columns |-> <<>>, rows |-> <<>>]

get_user_daterange_index(user_id, max_date, length) ==
    [i \in 1..length |-> <<user_id, max_date - length + i>>]

reindex(features, index) ==
    IF \E k \in IndexSet(features) : Len(RowsAt(features, k)) > 1
    THEN Raised("NonUniqueIndex")
    ELSE Table(features.columns,
               [n \in 1..Len(index) |->
                   IF index[n] \in IndexSet(features)
                   THEN RowsAt(features, index[n])[1]
                   ELSE [index |-> index[n], data |-> Zeros(features.columns)]])

prepare_data_for_prediction(features, maxlen, cycles_arg, tracking_arg, cpb, fb) ==
    LET got == IF features.status = "None"
               THEN get_features_table(cycles_arg, tracking_arg, cpb, fb, FALSE)
               ELSE [value |-> features, cycles_processed_backup |-> cpb,
                     features_backup |-> fb, loaded |-> FALSE]
        expanded == expand_cycles(cycles_arg, got.cycles_processed_backup)
        user_ids == SortInts({k[1] : k \in IndexSet(expanded.value)})
        day_maxs(u) == LET ds == {k[2] : k \in {x \in IndexSet(expanded.value) : x[1] = u}}
                       IN  CHOOSE d \in ds : \A e \in ds : e <= d
        index_tuples == ConcatAll([n \in 1..Len(user_ids) |->
                           get_user_daterange_index(user_ids[n], day_maxs(user_ids[n]),
                                                    maxlen)])
    IN  IF got.value.status # "ok"
        THEN [value |-> got.value,
              cycles_processed_backup |-> got.cycles_processed_backup,
              features_backup |-> got.features_backup]
        ELSE IF expanded.value.status # "ok"
        THEN [value |-> expanded.value, cycles_processed_backup |-> expanded.backup,
              features_backup |-> got.features_backup]
        ELSE [value |-> reindex(got.value, index_tuples),
              cycles_processed_backup |-> expanded.backup,
              features_backup |-> got.features_backup]

(* ------------------------- train/test split --------------------------- *)
users == 1..NumUsers

SampleSize == ((8 * Cardinality(users)) + 5) \div 10

split_features(features, train_users) ==
    LET flat == [n \in 1..Len(features.rows) |->
                    [index |-> n - 1, user_id |-> features.rows[n].index[1],
                     data |-> features.rows[n].data]]
        strip(rs) == [n \in 1..Len(rs) |-> [index |-> rs[n].index, data |-> rs[n].data]]
    IN  [status |-> "ok",
         train  |-> Table(training_columns,
                          strip(SelectSeq(flat, LAMBDA r : r.user_id \in train_users))),
         test   |-> Table(training_columns,
                          strip(SelectSeq(flat, LAMBDA r : r.user_id \notin train_users)))]

(* ----------------------------- input data ----------------------------- *)
CycleRecords ==
    {c \in [user_id : 1..NumUsers, cycle_start : 1..MaxStart,
            cycle_length : 1..MaxLength, period_length : 0..MaxPeriod] :
        c.period_length = Min(MaxPeriod, c.cycle_length)}

WithCycleIds(s) ==
    [i \in 1..Len(s) |->
        [user_id |-> s[i].user_id, cycle_id |-> i, cycle_start |-> s[i].cycle_start,
         cycle_length |-> s[i].cycle_length, period_length |-> s[i].period_length]]

CycleTables ==
    {WithCycleIds(s) : s \in
        {t \in UNION {[1..n -> CycleRecords] : n \in 0..MaxCycles} :
            \A i \in 1..(Len(t) - 1) : t[i].user_id <= t[i + 1].user_id}}

Events == [user_id : 1..NumUsers, date : 1..MaxStart, symptom : Range(list_of_symptoms)]

SymptomRank(s) == CHOOSE j \in 1..Len(list_of_symptoms) : list_of_symptoms[j] = s

EventLeq(a, b) ==
    \/ a.user_id < b.user_id
    \/ a.user_id = b.user_id /\ a.date < b.date
    \/ a.user_id = b.user_id /\ a.date = b.date
         /\ SymptomRank(a.symptom) <= SymptomRank(b.symptom)

TrackingLogs ==
    {t \in UNION {[1..n -> Events] : n \in 0..MaxEvents} :
        \A i \in 1..(Len(t) - 1) : EventLeq(t[i], t[i + 1])}

(* --------------------------- state machine ---------------------------- *)
NoCycle ==
    [user_id |-> 0, cycle_id |-> 0, cycle_start |-> 0, cycle_length |-> 0,
     period_length |-> 0]

NoOutput ==
    [expand_cycle  |-> [called |-> FALSE, cycle |-> NoCycle, value |-> NoCall],
     process_tracking |-> NoCall,
     expand_cycles |-> NoCall,
     get_features  |-> [value |-> NoCall, force |-> FALSE, loaded |-> FALSE],
     split         |-> [status |-> "nocall", train |-> NoCall, test |-> NoCall],
     prepared      |-> [m \in 1..MaxWindow |-> NoCall]]

Init ==
    /\ cycles \in CycleTables
    /\ tracking \in TrackingLogs
    /\ cycles_processed_backup = NoFile
    /\ features_backup = NoFile
    /\ out = NoOutput

ExpandCyclesCall ==
    LET r == expand_cycles(cycles, cycles_processed_backup)
    IN  /\ cycles_processed_backup' = r.backup
        /\ out' = [out EXCEPT !.expand_cycles = r.value]
        /\ UNCHANGED <<cycles, tracking, features_backup>>

GetFeatures(split, force) ==
    LET r == get_features_table(cycles, tracking, cycles_processed_backup,
                                features_backup, force)
    IN  /\ cycles_processed_backup' = r.cycles_processed_backup
        /\ features_backup' = r.features_backup
        /\ IF ~split
           THEN out' = [out EXCEPT !.get_features =
                           [value |-> r.value, force |-> force, loaded |-> r.loaded]]
           ELSE IF r.value.status # "ok"
           THEN out' = [out EXCEPT !.split =
                           [status |-> r.value.status, train |-> NoCall, test |-> NoCall]]
           ELSE \E train_users \in {S \in SUBSET users : Cardinality(S) = SampleSize} :
                    out' = [out EXCEPT !.split = split_features(r.value, train_users)]
        /\ UNCHANGED <<cycles, tracking>>

PrepareDataForPrediction(features, maxlen) ==
    LET r == prepare_data_for_prediction(features, maxlen, cycles, tracking,
                                         cycles_processed_backup, features_backup)
    IN  /\ cycles_processed_backup' = r.cycles_processed_backup
        /\ features_backup' = r.features_backup
        /\ out' = [out EXCEPT !.prepared[maxlen] = r.value]
        /\ UNCHANGED <<cycles, tracking>>

HeldFeatures ==
    {None} \cup (IF out.get_features.value.status = "ok"
                 THEN {out.get_features.value} ELSE {})

Next ==
    \/ ExpandCyclesCall
    \/ \E split \in BOOLEAN, force \in BOOLEAN : GetFeatures(split, force)
    \/ \E features \in HeldFeatures, maxlen \in 1..MaxWindow :
           PrepareDataForPrediction(features, maxlen)

Spec == Init /\ [][Next]_vars

(* ---- the staging directory outlives the process: cycles.csv changes --- *)
ReloadCycleTables == {t \in CycleTables : Len(t) = 1 /\ t[1].user_id = 1}

ReloadTrackingLogs ==
    {t \in TrackingLogs :
        /\ \A i \in 1..Len(t) : t[i].user_id = 1
        /\ process_tracking(t).status = "ok"}

InitReload ==
    /\ cycles \in ReloadCycleTables
    /\ tracking \in ReloadTrackingLogs
    /\ cycles_processed_backup = NoFile
    /\ features_backup = NoFile
    /\ out = NoOutput

Reload ==
    /\ cycles' \in ReloadCycleTables \ {cycles}
    /\ out' = NoOutput
    /\ UNCHANGED <<tracking, cycles_processed_backup, features_backup>>

NextReload ==
    \/ ExpandCyclesCall
    \/ \E split \in BOOLEAN, force \in BOOLEAN : GetFeatures(split, force)
    \/ \E features \in HeldFeatures, maxlen \in 1..MaxWindow :
           PrepareDataForPrediction(features, maxlen)
    \/ Reload

SpecReload == InitReload /\ [][NextReload]_vars

(* ------------------- expand_cycle on one cycle record ----------------- *)
UnitCycleRecords ==
    {c \in [user_id : {1}, cycle_start : 1..MaxStart,
            cycle_length : 1..MaxUnitLength, period_length : 0..MaxUnitLength] :
        \/ c.period_length <= Min(MaxUnitPeriod, c.cycle_length)
        \/ c.period_length = c.cycle_length}

InitExpandCycle ==
    /\ cycles \in {WithCycleIds(<<c>>) : c \in UnitCycleRecords}
    /\ tracking = <<>>
    /\ cycles_processed_backup = NoFile
    /\ features_backup = NoFile
    /\ out = NoOutput

ExpandCycleCall ==
    /\ \E i \in 1..Len(cycles) :
           out' = [out EXCEPT !.expand_cycle =
                      [called |-> TRUE, cycle |-> cycles[i],
                       value |-> expand_cycle(cycles[i])]]
    /\ UNCHANGED <<cycles, tracking, cycles_processed_backup, features_backup>>

NextExpandCycle == ExpandCycleCall

SpecExpandCycle == InitExpandCycle /\ [][NextExpandCycle]_vars

(* ------------------ process_tracking on one event log ----------------- *)
UnitTrackingLogs == UNION {[1..n -> Events] : n \in 0..MaxUnitEvents}

InitProcessTracking ==
    /\ cycles = <<>>
    /\ tracking \in UnitTrackingLogs
    /\ cycles_processed_backup = NoFile
    /\ features_backup = NoFile
    /\ out = NoOutput

ProcessTrackingCall ==
    /\ out' = [out EXCEPT !.process_tracking = process_tracking(tracking)]
    /\ UNCHANGED <<cycles, tracking, cycles_processed_backup, features_backup>>

NextProcessTracking == ProcessTrackingCall

SpecProcessTracking == InitProcessTracking /\ [][NextProcessTracking]_vars

(* ============================== claims ================================ *)
Cell(row, column) == row.data[column]

UserRows(t, u) == SelectSeq(t.rows, LAMBDA r : r.index[1] = u)

FreshCyclesProcessed(cycles_arg) ==
    Table(<<"cycle_id", "day_in_cycle", "period">>,
          ConcatAll([i \in 1..Len(cycles_arg) |-> expand_cycle(cycles_arg[i]).rows]))

(* C1: for every cycle record with cycle_length L >= 1 and                 *)
(* 0 <= period_length <= L (L of 128 and above included), expand_cycle    *)
(* returns exactly L rows keyed by (user_id, date) for the L consecutive  *)
(* dates starting at cycle_start; row i (0-based) has day_in_cycle = i+1, *)
(* the cycle's cycle_id, and period = 1 exactly when i < period_length.   *)
C1_ExpandCycleRows ==
    out.expand_cycle.called =>
        LET c == out.expand_cycle.cycle
            t == out.expand_cycle.value
        IN  /\ t.status = "ok"
            /\ Len(t.rows) = c.cycle_length
            /\ \A i \in 1..Len(t.rows) :
                  /\ t.rows[i].index = <<c.user_id, c.cycle_start + (i - 1)>>
                  /\ Cell(t.rows[i], "day_in_cycle") = i
                  /\ Cell(t.rows[i], "cycle_id") = c.cycle_id
                  /\ Cell(t.rows[i], "period") = (IF i <= c.period_length THEN 1 ELSE 0)

(* C2: for every event log whose symptoms are all in the vocabulary (logs  *)
(* in which some vocabulary symptom never occurs included),               *)
(* process_tracking returns one row per distinct (user_id, date), with    *)
(* exactly the vocabulary's columns in vocabulary order, each cell being  *)
(* the number of events (user, date, symptom) of the log.                 *)
C2_ProcessTrackingCounts ==
    out.process_tracking.status # "nocall" =>
        LET t == out.process_tracking
            keys == {<<tracking[i].user_id, tracking[i].date>> : i \in 1..Len(tracking)}
        IN  /\ t.status = "ok"
            /\ t.columns = list_of_symptoms
            /\ IndexSet(t) = keys
            /\ Len(t.rows) = Cardinality(keys)
            /\ \A n \in 1..Len(t.rows) :
                  /\ DOMAIN t.rows[n].data = Range(list_of_symptoms)
                  /\ \A sy \in Range(list_of_symptoms) :
                        Cell(t.rows[n], sy) =
                            Cardinality({i \in 1..Len(tracking) :
                                /\ <<tracking[i].user_id, tracking[i].date>> = t.rows[n].index
                                /\ tracking[i].symptom = sy})

(* C3: in the merged feature table built by get_features every            *)
(* (user, date) key of the expanded cycle table or of the aggregated      *)
(* symptom table appears exactly once and no other key appears; a key of  *)
(* the cycle table alone has all symptom columns 0, a key of the symptom  *)
(* table alone has day_in_cycle and period 0; overlapping cycles of one   *)
(* user included.                                                         *)
C3_MergeTotality ==
    out.get_features.value.status = "ok" =>
        LET f  == out.get_features.value
            cp == cycles_processed_backup
            tp == process_tracking(tracking)
        IN  /\ IndexSet(f) = IndexSet(cp) \cup IndexSet(tp)
            /\ \A k \in IndexSet(cp) \cup IndexSet(tp) : Len(RowsAt(f, k)) = 1
            /\ \A n \in 1..Len(f.rows) :
                  /\ f.rows[n].index \notin IndexSet(tp) =>
                        \A sy \in Range(list_of_symptoms) : Cell(f.rows[n], sy) = 0
                  /\ f.rows[n].index \notin IndexSet(cp) =>
                        /\ Cell(f.rows[n], "day_in_cycle") = 0
                        /\ Cell(f.rows[n], "period") = 0

(* C4: for every user and every max_len >= 1,                              *)
(* prepare_data_for_prediction returns exactly max_len rows for that      *)
(* user, keyed by the max_len consecutive dates ending at the user's      *)
(* maximum date in the expanded cycle table, in ascending date order; a   *)
(* window date that is a key of the input features table carries that     *)
(* feature row unchanged, any other window date an all-zero row.          *)
LastDate(cp, u) ==
    LET ds == {k[2] : k \in {x \in IndexSet(cp) : x[1] = u}}
    IN  CHOOSE d \in ds : \A e \in ds : e <= d

WindowOf(p, features, cp, m) ==
    /\ p.status = "ok"
    /\ {k[1] : k \in IndexSet(p)} = {k[1] : k \in IndexSet(cp)}
    /\ \A u \in {k[1] : k \in IndexSet(cp)} :
          LET rs == UserRows(p, u)
          IN  /\ Len(rs) = m
              /\ \A i \in 1..Len(rs) :
                    /\ rs[i].index = <<u, LastDate(cp, u) - m + i>>
                    /\ IF rs[i].index \in IndexSet(features)
                       THEN \E n \in 1..Len(features.rows) : features.rows[n] = rs[i]
                       ELSE \A c \in DOMAIN rs[i].data : rs[i].data[c] = 0

C4_WindowRows ==
    \A m \in 1..MaxWindow :
        (out.prepared[m].status # "nocall" /\ features_backup.status = "ok") =>
            WindowOf(out.prepared[m], features_backup, cycles_processed_backup, m)

(* The window of C4 on feature tables whose (user, date) keys are unique   *)
(* (no two cycles of a user share a date).                                *)
WindowRowsOnUniqueKeys ==
    (\A k \in IndexSet(features_backup) : Len(RowsAt(features_backup, k)) = 1)
        => C4_WindowRows

(* C5: the memoization in expand_cycles is invisible to callers: after any *)
(* earlier calls (with any earlier cycle tables), expand_cycles(c) returns*)
(* exactly the concatenation of expand_cycle over the rows of c.          *)
C5_MemoizationInvisible ==
    out.expand_cycles.status # "nocall" =>
        out.expand_cycles = FreshCyclesProcessed(cycles)

(* C6: get_features(force=True) ignores every stored backup: the table it  *)
(* returns and stores as the new features backup is the one computed from *)
(* the current cycles and tracking tables.                                *)
FreshFeatures == get_features_table(cycles, tracking, NoFile, NoFile, TRUE).value

C6_ForceIgnoresBackups ==
    (out.get_features.value.status # "nocall" /\ out.get_features.force) =>
        /\ out.get_features.value = FreshFeatures
        /\ features_backup = FreshFeatures

(* C7: idempotence: with cycles and tracking unchanged, any two calls of   *)
(* get_features(split=False), with any force and from any staging state   *)
(* produced from those inputs, return identical tables; likewise two      *)
(* calls of prepare_data_for_prediction with the same max_len.            *)
C7_SameAsBefore ==
    /\ out.get_features.value.status # "nocall" =>
          out'.get_features.value = out.get_features.value
    /\ \A m \in 1..MaxWindow :
          out.prepared[m].status # "nocall" => out'.prepared[m] = out.prepared[m]

C7_Idempotent == [][C7_SameAsBefore]_vars

C7_Witness ==
    /\ out.get_features.value.status = "ok"
    /\ out.get_features.loaded
    /\ Len(out.get_features.value.rows) > 1
    /\ \E m \in 1..MaxWindow : out.prepared[m].status = "ok"

(* C8: for valid data (every user has a cycle, a user's cycles do not      *)
(* overlap, no symptom is logged before the user's earliest cycle_start)  *)
(* every row of the merged feature table has                              *)
(* absolute_day = (date - first_use) + 1, first_use being the minimum     *)
(* cycle_start of the user's cycles; hence absolute_day >= 1 and, for a   *)
(* fixed user, strictly increasing with date.                             *)
CycleDates(c) == c.cycle_start..(c.cycle_start + c.cycle_length - 1)

ValidData ==
    /\ \A i \in 1..Len(tracking) : tracking[i].user_id \in DOMAIN first_use(cycles)
    /\ \A i \in 1..Len(cycles), j \in 1..Len(cycles) :
          (i # j /\ cycles[i].user_id = cycles[j].user_id)
              => CycleDates(cycles[i]) \cap CycleDates(cycles[j]) = {}
    /\ \A i \in 1..Len(tracking) :
          tracking[i].date >= first_use(cycles)[tracking[i].user_id]

C8_AbsoluteDay ==
    (ValidData /\ out.get_features.value.status = "ok") =>
        LET f == out.get_features.value
        IN  /\ \A n \in 1..Len(f.rows) :
                  /\ Cell(f.rows[n], "absolute_day") =
                        (f.rows[n].index[2] - first_use(cycles)[f.rows[n].index[1]]) + 1
                  /\ Cell(f.rows[n], "absolute_day") >= 1
            /\ \A n \in 1..Len(f.rows), k \in 1..Len(f.rows) :
                  (/\ f.rows[n].index[1] = f.rows[k].index[1]
                   /\ f.rows[n].index[2] < f.rows[k].index[2]) =>
                      Cell(f.rows[n], "absolute_day") < Cell(f.rows[k], "absolute_day")

C8_Witness ==
    /\ ValidData
    /\ out.get_features.value.status = "ok"
    /\ \E n \in 1..Len(out.get_features.value.rows) :
          LET r == out.get_features.value.rows[n]
          IN  /\ r.index \notin IndexSet(cycles_processed_backup)
              /\ Cell(r, "absolute_day") >= 2
    /\ \E u \in DOMAIN first_use(cycles) : Len(UserRows(out.get_features.value, u)) >= 2

(* C9: when a user has a symptom event dated before that user's earliest   *)
(* cycle_start the merge raises NegativeAbsoluteDay; no feature table     *)
(* with a row of absolute_day < 1 is ever returned or stored as a backup. *)
MergeReached == out.get_features.value.status \notin {"nocall", "KeyError", "ValueError"}

SymptomBeforeFirstUse ==
    \E i \in 1..Len(tracking) :
        /\ tracking[i].user_id \in DOMAIN first_use(cycles)
        /\ tracking[i].date < first_use(cycles)[tracking[i].user_id]

C9_NegativeAbsoluteDayRaised ==
    /\ (SymptomBeforeFirstUse /\ MergeReached) =>
           out.get_features.value.status = "NegativeAbsoluteDay"
    /\ \A n \in 1..Len(out.get_features.value.rows) :
           Cell(out.get_features.value.rows[n], "absolute_day") >= 1
    /\ \A n \in 1..Len(features_backup.rows) :
           Cell(features_backup.rows[n], "absolute_day") >= 1

(* C10: when a user appears in the symptom table but has zero cycle        *)
(* records the merge fails with NoCyclesForUser: it returns neither a     *)
(* table with an undefined absolute_day for that user nor a table from    *)
(* which that user's rows were silently removed.                          *)
UserWithoutCycles ==
    \E i \in 1..Len(tracking) : tracking[i].user_id \notin DOMAIN first_use(cycles)

C10_NoCyclesForUserRaised ==
    (UserWithoutCycles /\ MergeReached) =>
        out.get_features.value.status = "NoCyclesForUser"

====
